---- MODULE Spec2Model ----
(***************************************************************************)
(* Creation memory and reference resolution of the Openfabric pipeline:    *)
(* LongTermMemory (memory.py), AdvancedMemory (advanced_memory.py) and     *)
(* Pipeline.enhance_prompt (main.py).                                      *)
(*                                                                         *)
(* Every Python str is a sequence of one-character strings, so that        *)
(* lower(), len(), concatenation, string comparison and the formatting and *)
(* parsing of timestamps are computed, not assumed.                        *)
(***************************************************************************)
EXTENDS Integers, Sequences, FiniteSets, TLC

(***************************************************************************)
(* Bounds of the model.                                                    *)
(***************************************************************************)
\* rows the creations table may hold when a LongTermMemory is driven alone
MaxRows == 3
\* rows the creations table may hold under a Pipeline
MaxSaved == 2
\* the wall clock shows the seconds 0 .. MaxSec of one minute
MaxSec == 2
\* records the Chroma collection may hold
MaxIndexed == 1
\* rows that can be waiting in an open transaction
MaxPending == 1
\* the interpreter's string-hash seed is one of 0 .. MaxSeed
MaxSeed == 1

(***************************************************************************)
(* Characters and strings.                                                 *)
(***************************************************************************)
Digits == <<"0", "1", "2", "3", "4", "5", "6", "7", "8", "9">>

DigitChar(n) == Digits[n + 1]

IsDigit(c) == \E n \in 0..9 : Digits[n + 1] = c

DigitVal(c) == CHOOSE n \in 0..9 : Digits[n + 1] = c

\* code points of the characters a timestamp is made of
Ord(c) ==
    CASE c = "-" -> 45
      [] c = "." -> 46
      [] IsDigit(c) -> 48 + DigitVal(c)
      [] c = ":" -> 58
      [] c = "T" -> 84
      [] OTHER -> 0

Upper == <<"A", "B", "C", "D", "E", "F", "G", "H", "I", "J", "K", "L", "M",
           "N", "O", "P", "Q", "R", "S", "T", "U", "V", "W", "X", "Y", "Z">>

Lowercase == <<"a", "b", "c", "d", "e", "f", "g", "h", "i", "j", "k", "l", "m",
               "n", "o", "p", "q", "r", "s", "t", "u", "v", "w", "x", "y", "z">>

\* str.lower(), character by character
lower(s) ==
    [i \in 1..Len(s) |->
        IF \E k \in 1..26 : Upper[k] = s[i]
        THEN Lowercase[CHOOSE k \in 1..26 : Upper[k] = s[i]]
        ELSE s[i]]

\* s[i..] starts with p
StartsAt(s, i, p) ==
    /\ i + Len(p) - 1 <= Len(s)
    /\ \A k \in 1..Len(p) : s[i + k - 1] = p[k]

\* Python's `p in s` for strings
Contains(s, p) == \E i \in 1..(Len(s) + 1) : StartsAt(s, i, p)

\* SQLite's BINARY collation on TEXT: memcmp of the common prefix, then length
StrLess(a, b) ==
    LET m    == IF Len(a) < Len(b) THEN Len(a) ELSE Len(b)
        diff == { i \in 1..m : a[i] # b[i] }
        at   == CHOOSE i \in diff : \A j \in diff : i <= j
    IN  IF diff = {} THEN Len(a) < Len(b) ELSE Ord(a[at]) < Ord(b[at])

(***************************************************************************)
(* The wall clock.  An instant is [sec, usec]; the date, hour and minute   *)
(* are those of DatePrefix.                                                *)
(***************************************************************************)
USecPerSec == 1000000
USecPerMs == 1000
MsPerSec == 1000

\* a reading of the clock that is not on a whole millisecond
SubMs == 300

Instant(sec, usec) == [sec |-> sec, usec |-> usec]

\* the readings datetime.now() gives: the whole seconds, and one reading
\* SubMs microseconds into second 0
Times == { Instant(sec, 0) : sec \in 0..MaxSec } \cup { Instant(0, SubMs) }

\* the instant in microseconds
Micros(t) == t.sec * USecPerSec + t.usec

DatePrefix == <<"2", "0", "2", "4", "-", "0", "1", "-", "0", "1", "T",
                "1", "0", ":", "0", "0", ":">>

\* n written with w digits, zero padded
Pad(n, w) == [i \in 1..w |-> DigitChar((n \div (10 ^ (w - i))) % 10)]

\* datetime.isoformat(): YYYY-MM-DDTHH:MM:SS, and .ffffff only when the
\* microsecond is not 0
isoformat(t) ==
    DatePrefix \o Pad(t.sec, 2) \o
    (IF t.usec = 0 THEN <<>> ELSE <<".">> \o Pad(t.usec, 6))

\* the number a run of digits spells
RECURSIVE Number(_)
Number(ds) ==
    IF ds = <<>> THEN 0
    ELSE 10 * Number(SubSeq(ds, 1, Len(ds) - 1)) + DigitVal(ds[Len(ds)])

\* SQLite's JULIANDAY(text), scaled to milliseconds within the minute of
\* DatePrefix: the seconds and their fraction are read from the text and
\* rounded to the nearest millisecond
JULIANDAY(s) ==
    LET p    == Len(DatePrefix)
        sec  == Number(SubSeq(s, p + 1, p + 2))
        frac == IF Len(s) > p + 2
                THEN Number(SubSeq(s, p + 4, Len(s)))
                ELSE 0
    IN  sec * MsPerSec + ((frac + (USecPerMs \div 2)) \div USecPerMs)

\* ABS of SQLite
ABS(x) == IF x < 0 THEN 0 - x ELSE x

(***************************************************************************)
(* The values the operations are called with.                              *)
(***************************************************************************)
cat   == <<"c", "a", "t">>
dog   == <<"d", "o", "g">>
tabby == <<"t", "a", "b", "b", "y">>
husky == <<"h", "u", "s", "k", "y">>

\* (original_prompt, enhanced_prompt, image_path, model_path) tuples
Inputs ==
    { [original_prompt |-> cat, enhanced_prompt |-> tabby,
       image_path |-> <<"1", ".", "j", "p", "g">>,
       model_path |-> <<"1", ".", "g", "l", "b">>],
      [original_prompt |-> dog, enhanced_prompt |-> husky,
       image_path |-> <<"2", ".", "j", "p", "g">>,
       model_path |-> <<"2", ".", "g", "l", "b">>] }

\* what a write on the SQLite connection can do
\*   none   : the INSERT and the commit succeed
\*   insert : cursor.execute raises sqlite3.Error, no row is written
\*   commit : conn.commit raises sqlite3.Error; the row stays in the open
\*            transaction, where this connection's queries see it
\*   rollback : cursor.execute or conn.commit raises sqlite3.Error and SQLite
\*            rolls the open transaction back (disk full, I/O error): the
\*            rows that were not yet committed are gone
WriteFaults == {"none", "insert", "commit", "rollback"}

(***************************************************************************)
(* The strings passed as date_str and reference_date.                      *)
(***************************************************************************)
recent_token == <<"r", "e", "c", "e", "n", "t">>

now_token == <<"n", "o", "w">>

\* "gibberish not a date"
Gibberish == <<"g", "i", "b", "b", "e", "r", "i", "s", "h", " ", "n", "o",
               "t", " ", "a", " ", "d", "a", "t", "e">>

\* 34 characters, no date in it
LongGibberish == <<"t", "h", "e", " ", "r", "o", "b", "o", "t", " ", "t",
                   "h", "a", "t", " ", "I", " ", "m", "a", "d", "e", " ",
                   "b", "e", "f", "o", "r", "e", " ", "l", "u", "n", "c",
                   "h">>

\* more than 30 characters, a date in it
LongDate(t) == <<"w", "h", "a", "t", " ", "I", " ", "m", "a", "d", "e", " ", "a",
                 "t", " ">> \o isoformat(t)

\* exactly 30 and exactly 31 characters, a date in them
Date30 == <<"c", "r", "e", "a", "t", "e", "d", " ", "a", "t", " ">> \o isoformat(Instant(1, 0))

Date31 == <<"c", "r", "e", "a", "t", "e", "d", " ", "a", "t", ":", " ">> \o isoformat(Instant(1, 0))

\* UUIDs as str(uuid.uuid4()) writes them (36 characters)
Uuid(c) == <<c, c, c, c, c, c, c, c, "-", c, c, c, c, "-", "4", c, c, c, "-",
             "a", c, c, c, "-", c, c, c, c, c, c, c, c, c, c, c, c>>

\* the identifiers uuid4() gives, in the order it gives them
UuidPool == [k \in 1..(MaxIndexed + 1) |-> Uuid(Lowercase[k + 1])]

\* an identifier no creation was stored under
UnknownId == Uuid("f")

\* the timestamps the clock's instants are written as
Stamps == { isoformat(t) : t \in Times }

\* the date_str values get_creation_by_date is called with
DateStrings ==
    { now_token, <<"N", "o", "w">>, Gibberish, LongDate(Instant(1, 0)) } \cup Stamps

\* the non-empty reference_date values enhance_prompt is called with
ReferenceDates ==
    { recent_token, <<"R", "E", "C", "E", "N", "T">>, LongGibberish,
      UuidPool[1], UnknownId, Date30, Date31 }
    \cup DateStrings

\* lower(), JULIANDAY and the collation, tabulated over the strings in use
Lowered == [tok \in ReferenceDates |-> lower(tok)]

JulianDayOf == [s \in Stamps |-> JULIANDAY(s)]

StampLess == { ab \in Stamps \X Stamps : StrLess(ab[1], ab[2]) }

(***************************************************************************)
(* State.                                                                  *)
(***************************************************************************)
VARIABLES
    creations,            \* table creations as self.conn sees it, in rowid order
    uncommitted,          \* how many of its last rows are in a transaction still open
    returned,             \* a result some call has returned and its caller has kept
    saved_at,             \* the instant datetime.now() gave for each row
    collection,           \* the Chroma collection, in insertion order
    use_advanced_memory,  \* Pipeline.use_advanced_memory
    ollama_available,     \* Pipeline.ollama_available
    embed_available,      \* AdvancedMemory.ollama_available
    hash_seed,            \* the seed of str hashing in the running interpreter
    context,              \* ShortTermMemory.context
    image_dir,            \* the files of FileManager.image_dir
    model_dir,            \* the files of FileManager.model_dir
    max_files,            \* FileManager.max_files
    files_made,           \* how many file names uuid4 has given so far
    call                  \* the call in progress and what it returns; idle between calls

vars == <<creations, uncommitted, returned, saved_at, collection, use_advanced_memory,
          ollama_available, embed_available, hash_seed, context, image_dir,
          model_dir, max_files, files_made, call>>

Idle == [op |-> "idle"]

\* column k (Python's 0-based index) of a fetched row
\* 0 id, 1 timestamp, 2 original_prompt, 3 enhanced_prompt, 4 image_path, 5 model_path
Col(row, k) == row[k + 1]

(***************************************************************************)
(* ShortTermMemory.  context is a dict: a function on the keys it holds.   *)
(* A value v is kept as <<v>> and None as <<>>.                            *)
(***************************************************************************)
None == <<>>

\* self.context = {} of __init__
NoContext == [k \in {} |-> None]

\* add_context with dict.setdefault in the place of the assignment
add_context_setdefault(ctx, key, value) ==
    [k \in DOMAIN ctx \cup {key} |-> IF k \in DOMAIN ctx THEN ctx[k] ELSE value]

\* self.context[key] = value
add_context(ctx, key, value) ==
    [k \in DOMAIN ctx \cup {key} |-> IF k = key THEN value ELSE ctx[k]]

\* self.context.get(key)
get_context(ctx, key) == IF key \in DOMAIN ctx THEN ctx[key] ELSE None

\* self.context.clear()
clear_context(ctx) == NoContext

\* the keys Pipeline.execute writes
ContextKeys == {"enhanced_prompt", "image_path", "model_path"}

(***************************************************************************)
(* FileManager.  A directory is the set of its files; a file is its name   *)
(* (the number of the uuid4 that named it) and its st_mtime, in ticks of   *)
(* the file system's clock.                                                *)
(***************************************************************************)
\* the caps FileManager is constructed with: FileManager(max_files=n)
MaxCap == 2
Caps == 0..MaxCap

\* the Pipeline constructs FileManager() with the default max_files, 100;
\* the model gives it a cap that a few runs exceed
PipelineCaps == { 1 }

\* how many files are written in all
MaxFilesMade == 4

jpg == <<"j", "p", "g">>
glb == <<"g", "l", "b">>

\* f"{uuid.uuid4()}.{extension.lstrip('.')}": uuid4 gives a new name each time
generate_unique_filename(made, extension) == <<DigitChar(made + 1), ".">> \o extension

\* str(self.image_dir / filename), str(self.model_dir / filename)
image_path_of(made) == <<"i", "/">> \o generate_unique_filename(made, jpg)
model_path_of(made) == <<"m", "/">> \o generate_unique_filename(made, glb)

\* the greatest st_mtime in a directory (0 in an empty one)
Newest(dir) ==
    IF dir = {} THEN 0
    ELSE CHOOSE t \in { f.mtime : f \in dir } : \A f \in dir : f.mtime <= t

\* the st_mtime a file written now can get: the clock does not go back, and
\* two writes within one tick of the clock get the same st_mtime
WriteTicks(dir) == { Newest(dir), Newest(dir) + 1 }

\* files[:len(files) - max_files] after files.sort(key=st_mtime): the sort
\* is stable and glob gives the files in the directory's own order, so
\* files of equal st_mtime can come in any order
ToRemove(dir, cap) ==
    IF Cardinality(dir) <= cap THEN { {} }
    ELSE { R \in SUBSET dir :
             /\ Cardinality(R) = Cardinality(dir) - cap
             /\ \A f \in R, g \in dir \ R : f.mtime <= g.mtime }

\* _cleanup_if_needed(directory): the directories it can leave; an unlink
\* that raises is reported and the file stays
cleanup_if_needed(dir, cap) ==
    { [dir |-> dir \ removed, deletion_error |-> removed # R] :
        <<R, removed>> \in { p \in ToRemove(dir, cap) \X SUBSET dir : p[2] \subseteq p[1] } }

\* save_image and save_model: write the file under a new name, clean up
save_file(dir, cap, made, mtime) ==
    cleanup_if_needed(dir \cup { [name |-> made + 1, mtime |-> mtime] }, cap)

(***************************************************************************)
(* LongTermMemory                                                          *)
(***************************************************************************)
\* InsertRow with the two prompts bound to each other's column
InsertRowSwapped(table, timestamp, in) ==
    Append(table, <<Len(table) + 1, timestamp, in.enhanced_prompt,
                    in.original_prompt, in.image_path, in.model_path>>)

\* INSERT INTO creations (timestamp, original_prompt, enhanced_prompt,
\* image_path, model_path): AUTOINCREMENT gives the next rowid
InsertRow(table, timestamp, in) ==
    Append(table, <<Len(table) + 1, timestamp, in.original_prompt,
                    in.enhanced_prompt, in.image_path, in.model_path>>)

\* SelectAllDesc without DESC: ascending timestamp order
SelectAllAsc(table) ==
    LET n     == Len(table)
        less  == { ij \in (1..n) \X (1..n) :
                     <<Col(table[ij[1]], 1), Col(table[ij[2]], 1)>> \in StampLess }
        perms == { p \in [1..n -> 1..n] : \A i, j \in 1..n : i # j => p[i] # p[j] }
    IN  { [i \in 1..n |-> table[p[i]]] :
            p \in { q \in perms :
                      \A i, j \in 1..n : i < j => <<q[j], q[i]>> \notin less } }

\* the sequences of all rows of table that are in descending timestamp order;
\* SQL leaves the order of rows with equal timestamps open
SelectAllDesc(table) ==
    LET n     == Len(table)
        less  == { ij \in (1..n) \X (1..n) :
                     <<Col(table[ij[1]], 1), Col(table[ij[2]], 1)>> \in StampLess }
        perms == { p \in [1..n -> 1..n] : \A i, j \in 1..n : i # j => p[i] # p[j] }
    IN  { [i \in 1..n |-> table[p[i]]] :
            p \in { q \in perms :
                      \A i, j \in 1..n : i < j => <<q[i], q[j]>> \notin less } }

\* SelectNearest without ABS: ORDER BY JULIANDAY(timestamp) - JULIANDAY(?)
SelectNearestSigned(table, target) ==
    LET n    == Len(table)
        t    == JulianDayOf[target]
        dist == [k \in 1..n |-> JulianDayOf[Col(table[k], 1)] - t]
    IN  IF n = 0 THEN { <<>> }
        ELSE { <<table[k]>> : k \in { i \in 1..n : \A j \in 1..n : dist[i] <= dist[j] } }

\* ORDER BY ABS(JULIANDAY(timestamp) - JULIANDAY(?)) LIMIT 1: the results the
\* query can give; rows at the same distance may come in either order
SelectNearest(table, target) ==
    LET n    == Len(table)
        t    == JulianDayOf[target]
        dist == [k \in 1..n |-> ABS(JulianDayOf[Col(table[k], 1)] - t)]
    IN  IF n = 0 THEN { <<>> }
        ELSE { <<table[k]>> : k \in { i \in 1..n : \A j \in 1..n : dist[i] <= dist[j] } }

\* save_creation(original_prompt, enhanced_prompt, image_path, model_path):
\* the table it leaves
save_creation(table, pending, in, now, fault) ==
    CASE fault = "insert"   -> table
      [] fault = "rollback" -> SubSeq(table, 1, Len(table) - pending)
      [] OTHER              -> InsertRow(table, isoformat(now), in)

\* the rows left in the open transaction when save_creation returns:
\* save_creation never rolls back after a failure (lines 55-57)
pending_after(pending, fault) ==
    CASE fault = "insert" -> pending
      [] fault = "commit" -> pending + 1
      [] OTHER            -> 0

\* the instants of the rows save_creation leaves
stamps_after(stamps, pending, now, fault) ==
    CASE fault = "insert"   -> stamps
      [] fault = "rollback" -> SubSeq(stamps, 1, Len(stamps) - pending)
      [] OTHER              -> Append(stamps, now)

\* get_all_creations(): what it can return, and why
get_all_creations(table, dbOk) ==
    IF dbOk
    THEN { [ret |-> rows, cause |-> "ok"] : rows \in SelectAllDesc(table) }
    ELSE { [ret |-> <<>>, cause |-> "StorageFailure"] }

\* dateutil.parser.parse(date_str, fuzzy=True): the outcomes it can have.
\* A timestamp written in the text is the date parsed (the longest one, when
\* one extends another); text without any digit holds no date and raises
\* ValueError; for other text with digits the outcome is not determined here.
parse(date_str) ==
    LET found   == { t \in Times : Contains(date_str, isoformat(t)) }
        longest == CHOOSE t \in found :
                       \A u \in found : Len(isoformat(u)) <= Len(isoformat(t))
        failure == [raised |-> TRUE, value |-> Instant(0, 0)]
    IN  IF found # {} THEN { [raised |-> FALSE, value |-> longest] }
        ELSE IF \A i \in 1..Len(date_str) : ~IsDigit(date_str[i]) THEN { failure }
        ELSE { failure } \cup { [raised |-> FALSE, value |-> t] : t \in Times }

\* parse, tabulated over the strings in use
Parsed == [tok \in ReferenceDates |-> parse(tok)]

\* datetime.now() is read only for the token "now"
ReadsClock(date_str) == Lowered[date_str] = now_token

\* get_creation_by_date(date_str): what it can return, and why
get_creation_by_date(table, date_str, now, dbOk) ==
    LET targets == IF ReadsClock(date_str)
                   THEN { [raised |-> FALSE, value |-> now] }
                   ELSE Parsed[date_str]
        query(target) ==
            IF target.raised
            THEN { [ret |-> <<>>, cause |-> "ParseFailure", target |-> <<>>] }
            ELSE IF ~dbOk
            THEN { [ret |-> <<>>, cause |-> "StorageFailure", target |-> <<>>] }
            ELSE { [ret |-> rows, cause |-> "ok", target |-> <<target.value>>] :
                     rows \in SelectNearest(table, isoformat(target.value)) }
    IN  UNION { query(target) : target \in targets }

(***************************************************************************)
(* The calls on a LongTermMemory.                                          *)
(***************************************************************************)
SaveCreationUpTo(limit) ==
    /\ call = Idle
    /\ Len(creations) < limit
    /\ \E in \in Inputs, now \in Times, fault \in WriteFaults :
          /\ fault = "commit" => uncommitted < MaxPending
          /\ creations' = save_creation(creations, uncommitted, in, now, fault)
          /\ uncommitted' = pending_after(uncommitted, fault)
          /\ saved_at' = stamps_after(saved_at, uncommitted, now, fault)
          /\ call' = [op |-> "save_creation", in |-> in,
                      cause |-> IF fault = "none" THEN "ok" ELSE "StorageFailure",
                      ret |-> "None"]
    /\ UNCHANGED <<returned, collection, use_advanced_memory, ollama_available,
                   embed_available, hash_seed,
                   context, image_dir, model_dir, max_files, files_made>>

SaveCreation == SaveCreationUpTo(MaxRows)

GetAllCreations ==
    /\ call = Idle
    /\ \E dbOk \in BOOLEAN :
         \E r \in get_all_creations(creations, dbOk) :
            call' = [op |-> "get_all_creations", cause |-> r.cause, ret |-> r.ret]
    /\ UNCHANGED <<creations, uncommitted, returned, saved_at, collection,
                   use_advanced_memory, ollama_available,
                   embed_available, hash_seed,
                   context, image_dir, model_dir, max_files, files_made>>

GetCreationByDate ==
    /\ call = Idle
    /\ \E date_str \in DateStrings :
         \E now \in (IF ReadsClock(date_str) THEN Times ELSE { Instant(0, 0) }),
            dbOk \in BOOLEAN :
           \E r \in get_creation_by_date(creations, date_str, now, dbOk) :
              call' = [op |-> "get_creation_by_date", date_str |-> date_str,
                       cause |-> r.cause, ret |-> r.ret, target |-> r.target]
    /\ UNCHANGED <<creations, uncommitted, returned, saved_at, collection,
                   use_advanced_memory, ollama_available,
                   embed_available, hash_seed,
                   context, image_dir, model_dir, max_files, files_made>>

\* the call returns to its caller, which makes the next one
Return ==
    /\ call # Idle
    /\ call.op = "execute" => call.pc = "done"
    /\ call.op = "requests" => call.wpc = "done" /\ call.rpc = "done"
    /\ call' = Idle
    /\ UNCHANGED <<creations, uncommitted, returned, saved_at, collection,
                   use_advanced_memory, ollama_available,
                   embed_available, hash_seed,
                   context, image_dir, model_dir, max_files, files_made>>

(***************************************************************************)
(* The calls on a ShortTermMemory.                                         *)
(***************************************************************************)
\* the values kept: None and two strings
ContextValues == { None, <<cat>>, <<tabby>> }

AddContext ==
    /\ call = Idle
    /\ \E key \in ContextKeys, value \in ContextValues :
          /\ context' = add_context(context, key, value)
          /\ call' = [op |-> "add_context", key |-> key, value |-> value]
    /\ UNCHANGED <<creations, uncommitted, returned, saved_at, collection,
                   use_advanced_memory, ollama_available, embed_available,
                   hash_seed, image_dir, model_dir, max_files, files_made>>

GetContext ==
    /\ call = Idle
    /\ \E key \in ContextKeys :
          call' = [op |-> "get_context", key |-> key,
                   ret |-> get_context(context, key)]
    /\ UNCHANGED <<creations, uncommitted, returned, saved_at, collection,
                   use_advanced_memory, ollama_available, embed_available,
                   hash_seed, context, image_dir, model_dir, max_files, files_made>>

ClearContext ==
    /\ call = Idle
    /\ context' = clear_context(context)
    /\ call' = [op |-> "clear_context"]
    /\ UNCHANGED <<creations, uncommitted, returned, saved_at, collection,
                   use_advanced_memory, ollama_available, embed_available,
                   hash_seed, image_dir, model_dir, max_files, files_made>>

(***************************************************************************)
(* AdvancedMemory                                                          *)
(***************************************************************************)
\* get_creation_by_id(creation_id): None is <<>>, a record found is <<record>>
get_creation_by_id(coll, creation_id, chromaOk) ==
    LET hits == SelectSeq(coll, LAMBDA e : e.id = creation_id)
    IN  IF ~chromaOk \/ hits = <<>> THEN <<>>
        ELSE << [id |-> hits[1].id, metadata |-> hits[1].metadata] >>

\* AdvancedMemory.save_creation: collection.add of the new id with its
\* metadata (the metadata's timestamp, which nothing here reads, is left out)
advanced_save_creation(coll, in) ==
    Append(coll, [id |-> UuidPool[Len(coll) + 1],
                  metadata |-> [original_prompt |-> in.original_prompt,
                                enhanced_prompt |-> in.enhanced_prompt,
                                image_path |-> in.image_path,
                                model_path |-> in.model_path]])

(***************************************************************************)
(* Pipeline.enhance_prompt                                                 *)
(***************************************************************************)
RefHead == <<"\n", "R", "e", "f", "e", "r", "e", "n", "c", "e", ":", " ",
             "P", "r", "e", "v", "i", "o", "u", "s", "l", "y", " ", "I",
             " ", "c", "r", "e", "a", "t", "e", "d", " ", "'">>

RefMid == <<"'", " ", "w", "h", "i", "c", "h", " ", "w", "a", "s", " ",
            "e", "n", "h", "a", "n", "c", "e", "d", " ", "t", "o", " ",
            "'">>

RefTail == <<"'", ".", " ">>

\* the f-string of lines 94-95, 100-101 and 107-108
ReferenceText(first, second) == RefHead \o first \o RefMid \o second \o RefTail

\* str.strip() of blanks
RECURSIVE strip(_)
strip(s) ==
    IF s = <<>> THEN s
    ELSE IF Head(s) = " " THEN strip(Tail(s))
    ELSE IF s[Len(s)] = " " THEN strip(SubSeq(s, 1, Len(s) - 1))
    ELSE s

\* PathOf comparing reference_date with 'recent' without lower()
PathOfCaseSensitive(reference_date, use_adv) ==
    IF reference_date = <<>> THEN "none"
    ELSE IF reference_date = recent_token THEN "recent"
    ELSE IF use_adv /\ Len(reference_date) > 30 THEN "id"
    ELSE "date"

\* PathOf taking the id branch without looking at use_advanced_memory
PathOfAnyLongIsId(reference_date, use_adv) ==
    IF reference_date = <<>> THEN "none"
    ELSE IF Lowered[reference_date] = recent_token THEN "recent"
    ELSE IF Len(reference_date) > 30 THEN "id"
    ELSE "date"

\* PathOf taking tokens of 30 characters for identifiers too
PathOfFromThirty(reference_date, use_adv) ==
    IF reference_date = <<>> THEN "none"
    ELSE IF Lowered[reference_date] = recent_token THEN "recent"
    ELSE IF use_adv /\ Len(reference_date) >= 30 THEN "id"
    ELSE "date"

\* which branch of lines 86-108 a reference_date takes
PathOf(reference_date, use_adv) ==
    IF reference_date = <<>> THEN "none"
    ELSE IF Lowered[reference_date] = recent_token THEN "recent"
    ELSE IF use_adv /\ Len(reference_date) > 30 THEN "id"
    ELSE "date"

\* lines 84-110: the creation found (<<>> when none), the reference_text made
\* of it, and how the store answered
resolve(reference_date, table, coll, use_adv, now, dbOk, chromaOk) ==
    LET path == PathOf(reference_date, use_adv)
        of_row(r) ==
            [path |-> path, cause |-> r.cause,
             creation |-> IF r.ret # <<>> THEN <<r.ret[1]>> ELSE <<>>,
             reference_text |->
                 IF r.ret # <<>>
                 THEN ReferenceText(Col(r.ret[1], 1), Col(r.ret[1], 2))
                 ELSE <<>>]
        by_id == get_creation_by_id(coll, reference_date, chromaOk)
    IN  CASE path = "none" ->
               { [path |-> path, cause |-> "ok", creation |-> <<>>,
                  reference_text |-> <<>>] }
          [] path = "recent" ->
               { of_row(r) : r \in get_all_creations(table, dbOk) }
          [] path = "id" ->
               { [path |-> path, cause |-> "ok", creation |-> by_id,
                  reference_text |->
                      IF by_id # <<>>
                      THEN ReferenceText(by_id[1].metadata.original_prompt,
                                         by_id[1].metadata.enhanced_prompt)
                      ELSE <<>>] }
          [] path = "date" ->
               { of_row(r) : r \in get_creation_by_date(table, reference_date, now, dbOk) }

\* what ollama.chat does: it raises, or it answers with some text
ChatOutcomes ==
    { [raised |-> TRUE, content |-> <<>>],
      [raised |-> FALSE, content |-> <<" ">> \o husky \o <<" ">>] }

\* enhance_prompt falling back to full_prompt, the text it sent to ollama
enhance_prompt_full(user_prompt, reference_date, table, coll, use_adv, ollama_ok, now, dbOk, chromaOk, chat) ==
    IF ~ollama_ok
    THEN { [path |-> "skipped", cause |-> "ok", creation |-> <<>>,
            reference_text |-> <<>>, full_prompt |-> <<>>, ret |-> user_prompt] }
    ELSE { [path |-> g.path, cause |-> g.cause, creation |-> g.creation,
            reference_text |-> g.reference_text,
            full_prompt |-> user_prompt \o g.reference_text,
            ret |-> IF chat.raised THEN user_prompt \o g.reference_text
                    ELSE strip(chat.content)] :
             g \in resolve(reference_date, table, coll, use_adv, now, dbOk, chromaOk) }

\* enhance_prompt(user_prompt, reference_date): what it can return
enhance_prompt(user_prompt, reference_date, table, coll, use_adv, ollama_ok, now, dbOk, chromaOk, chat) ==
    IF ~ollama_ok
    THEN { [path |-> "skipped", cause |-> "ok", creation |-> <<>>,
            reference_text |-> <<>>, full_prompt |-> <<>>, ret |-> user_prompt] }
    ELSE { [path |-> g.path, cause |-> g.cause, creation |-> g.creation,
            reference_text |-> g.reference_text,
            full_prompt |-> user_prompt \o g.reference_text,
            ret |-> IF chat.raised THEN user_prompt ELSE strip(chat.content)] :
             g \in resolve(reference_date, table, coll, use_adv, now, dbOk, chromaOk) }

(***************************************************************************)
(* The calls on a Pipeline's memories.                                     *)
(***************************************************************************)
UserPrompts == { cat }

\* the reference_date values given to enhance_prompt
PromptReferences ==
    { <<>>, recent_token, <<"R", "E", "C", "E", "N", "T">>, LongGibberish,
      UuidPool[1], UnknownId, now_token, Gibberish, LongDate(Instant(1, 0)),
      isoformat(Instant(1, 0)), Date30, Date31 }

PipelineSaveCreation == SaveCreationUpTo(MaxSaved)

AdvancedSaveCreation ==
    /\ call = Idle
    /\ use_advanced_memory
    /\ Len(collection) < MaxIndexed
    /\ \E in \in Inputs, chromaOk \in BOOLEAN :
          /\ collection' = IF chromaOk THEN advanced_save_creation(collection, in)
                           ELSE collection
          /\ call' = [op |-> "advanced_save_creation", in |-> in,
                      raised |-> ~chromaOk,
                      ret |-> IF chromaOk THEN UuidPool[Len(collection) + 1] ELSE <<>>]
    /\ UNCHANGED <<creations, uncommitted, returned, saved_at, use_advanced_memory, ollama_available,
                   embed_available, hash_seed,
                   context, image_dir, model_dir, max_files, files_made>>

EnhancePrompt ==
    /\ call = Idle
    /\ \E user_prompt \in UserPrompts, reference_date \in PromptReferences :
         LET path == PathOf(reference_date, use_advanced_memory) IN
         \E now \in (IF path = "date" /\ ReadsClock(reference_date)
                     THEN Times ELSE { Instant(0, 0) }),
            dbOk \in (IF path \in {"recent", "date"} THEN BOOLEAN ELSE { TRUE }),
            chromaOk \in (IF path = "id" THEN BOOLEAN ELSE { TRUE }),
            chat \in ChatOutcomes :
           \E r \in enhance_prompt(user_prompt, reference_date, creations, collection,
                                   use_advanced_memory, ollama_available,
                                   now, dbOk, chromaOk, chat) :
              call' = [op |-> "enhance_prompt", user_prompt |-> user_prompt,
                       reference_date |-> reference_date, path |-> r.path,
                       cause |-> r.cause, creation |-> r.creation,
                       reference_text |-> r.reference_text,
                       full_prompt |-> r.full_prompt, ret |-> r.ret]
    /\ UNCHANGED <<creations, uncommitted, returned, saved_at, collection,
                   use_advanced_memory, ollama_available,
                   embed_available, hash_seed,
                   context, image_dir, model_dir, max_files, files_made>>

\* the caller of a query keeps one of the rows it was given
KeepRow ==
    /\ call.op \in {"get_all_creations", "get_creation_by_date"}
    /\ returned = <<>>
    /\ \E i \in 1..Len(call.ret) : returned' = <<call.ret[i]>>
    /\ call' = Idle
    /\ UNCHANGED <<creations, uncommitted, saved_at, collection,
                   use_advanced_memory, ollama_available,
                   embed_available, hash_seed,
                   context, image_dir, model_dir, max_files, files_made>>

\* a LongTermMemory on its own, as the tests construct it
StoreInit ==
    /\ creations = <<>>
    /\ uncommitted = 0
    /\ returned = <<>>
    /\ saved_at = <<>>
    /\ collection = <<>>
    /\ use_advanced_memory = FALSE
    /\ ollama_available = TRUE
    /\ embed_available = TRUE
    /\ hash_seed = 0
    /\ context = NoContext
    /\ image_dir = {}
    /\ model_dir = {}
    /\ max_files = MaxCap
    /\ files_made = 0
    /\ call = Idle

StoreNext == SaveCreation \/ GetAllCreations \/ GetCreationByDate \/ Return

StoreSpec == StoreInit /\ [][StoreNext]_vars

\* a LongTermMemory whose caller holds on to a row it has read
HistoryNext ==
    \/ PipelineSaveCreation
    \/ GetAllCreations
    \/ GetCreationByDate
    \/ KeepRow
    \/ Return

HistorySpec == StoreInit /\ [][HistoryNext]_vars

(***************************************************************************)
(* Two requests at once on one LongTermMemory: one saves, one reads.  Each *)
(* request runs on a thread of its own; the steps of the two interleave.   *)
(***************************************************************************)
\* sqlite3.connect(db_path) keeps check_same_thread=True: the connection and
\* its cursor work only on the thread that constructed the LongTermMemory.
\* Owners says which of the two requests, if either, runs on that thread
Owners == {"writer", "reader", "neither"}

\* cursor.execute on another thread raises sqlite3.ProgrammingError, which
\* is a sqlite3.Error
execute_raises(owner, request) == owner # request

Reads == {"get_all_creations", "get_creation_by_date"}

\* what the read of a request gives on a table
read_of(read, table, now) ==
    IF read = "get_all_creations"
    THEN { r.ret : r \in get_all_creations(table, TRUE) }
    ELSE { r.ret : r \in get_creation_by_date(table, now_token, now, TRUE) }

RequestsStart ==
    /\ call = Idle
    /\ Len(creations) < MaxSaved
    /\ uncommitted = 0
    /\ \E in \in Inputs, now \in Times, owner \in Owners, read \in Reads :
          call' = [op |-> "requests", owner |-> owner, in |-> in, now |-> now,
                   read |-> read, wpc |-> "insert", rpc |-> "select",
                   before |-> creations, fetched |-> <<>>, ret |-> <<>>]
    /\ UNCHANGED <<creations, uncommitted, returned, saved_at, collection,
                   use_advanced_memory, ollama_available, embed_available,
                   hash_seed, context, image_dir, model_dir, max_files, files_made>>

\* save_creation, lines 50-54: self.cursor.execute(INSERT); the cursor is
\* the one the reads use, and a new statement drops its pending rows
WriterInsert ==
    /\ call.op = "requests"
    /\ call.wpc = "insert"
    /\ IF execute_raises(call.owner, "writer")
       THEN /\ call' = [call EXCEPT !.wpc = "done"]
            /\ UNCHANGED <<creations, uncommitted, saved_at>>
       ELSE /\ creations' = InsertRow(creations, isoformat(call.now), call.in)
            /\ uncommitted' = uncommitted + 1
            /\ saved_at' = Append(saved_at, call.now)
            /\ call' = [call EXCEPT !.wpc = "commit", !.fetched = <<>>]
    /\ UNCHANGED <<returned, collection, use_advanced_memory, ollama_available,
                   embed_available, hash_seed, context, image_dir, model_dir,
                   max_files, files_made>>

\* save_creation, line 55: self.conn.commit()
WriterCommit ==
    /\ call.op = "requests"
    /\ call.wpc = "commit"
    /\ uncommitted' = 0
    /\ call' = [call EXCEPT !.wpc = "done"]
    /\ UNCHANGED <<creations, returned, saved_at, collection,
                   use_advanced_memory, ollama_available, embed_available,
                   hash_seed, context, image_dir, model_dir, max_files, files_made>>

\* the read's self.cursor.execute(SELECT) (lines 68-72, 81); on another
\* thread it raises and the except clause returns []
ReaderSelect ==
    /\ call.op = "requests"
    /\ call.rpc = "select"
    /\ IF execute_raises(call.owner, "reader")
       THEN call' = [call EXCEPT !.rpc = "done", !.ret = <<>>]
       ELSE \E rows \in read_of(call.read, creations, call.now) :
               call' = [call EXCEPT !.rpc = "fetch", !.fetched = rows]
    /\ UNCHANGED <<creations, uncommitted, returned, saved_at, collection,
                   use_advanced_memory, ollama_available, embed_available,
                   hash_seed, context, image_dir, model_dir, max_files, files_made>>

\* the read's self.cursor.fetchall() (lines 73, 82)
ReaderFetch ==
    /\ call.op = "requests"
    /\ call.rpc = "fetch"
    /\ call' = [call EXCEPT !.rpc = "done", !.ret = call.fetched]
    /\ UNCHANGED <<creations, uncommitted, returned, saved_at, collection,
                   use_advanced_memory, ollama_available, embed_available,
                   hash_seed, context, image_dir, model_dir, max_files, files_made>>

RequestsNext ==
    \/ PipelineSaveCreation
    \/ RequestsStart
    \/ WriterInsert
    \/ WriterCommit
    \/ ReaderSelect
    \/ ReaderFetch
    \/ Return

RequestsSpec == StoreInit /\ [][RequestsNext]_vars

(***************************************************************************)
(* The calls on a FileManager.                                             *)
(***************************************************************************)
SaveImage ==
    /\ call = Idle
    /\ files_made < MaxFilesMade
    /\ \E mtime \in WriteTicks(image_dir) :
         \E r \in save_file(image_dir, max_files, files_made, mtime) :
            /\ image_dir' = r.dir
            /\ call' = [op |-> "save_image", name |-> files_made + 1,
                        mtime |-> mtime, before |-> image_dir,
                        deletion_error |-> r.deletion_error,
                        ret |-> image_path_of(files_made)]
    /\ files_made' = files_made + 1
    /\ UNCHANGED <<creations, uncommitted, returned, saved_at, collection,
                   use_advanced_memory, ollama_available, embed_available,
                   hash_seed, context, model_dir, max_files>>

SaveModel ==
    /\ call = Idle
    /\ files_made < MaxFilesMade
    /\ \E mtime \in WriteTicks(model_dir) :
         \E r \in save_file(model_dir, max_files, files_made, mtime) :
            /\ model_dir' = r.dir
            /\ call' = [op |-> "save_model", name |-> files_made + 1,
                        mtime |-> mtime, before |-> model_dir,
                        deletion_error |-> r.deletion_error,
                        ret |-> model_path_of(files_made)]
    /\ files_made' = files_made + 1
    /\ UNCHANGED <<creations, uncommitted, returned, saved_at, collection,
                   use_advanced_memory, ollama_available, embed_available,
                   hash_seed, context, image_dir, max_files>>

\* a FileManager on its own, with the cap it was constructed with
FilesInit ==
    /\ creations = <<>>
    /\ uncommitted = 0
    /\ returned = <<>>
    /\ saved_at = <<>>
    /\ collection = <<>>
    /\ use_advanced_memory = FALSE
    /\ ollama_available = TRUE
    /\ embed_available = TRUE
    /\ hash_seed = 0
    /\ context = NoContext
    /\ image_dir = {}
    /\ model_dir = {}
    /\ max_files \in Caps
    /\ files_made = 0
    /\ call = Idle

FilesNext == SaveImage \/ SaveModel \/ Return

FilesSpec == FilesInit /\ [][FilesNext]_vars

StmNext == AddContext \/ GetContext \/ ClearContext \/ Return

\* a ShortTermMemory on its own, as the tests construct it
StmSpec == StoreInit /\ [][StmNext]_vars

\* a Pipeline as __init__ leaves it: AdvancedMemory may have failed to start
Init ==
    /\ creations = <<>>
    /\ uncommitted = 0
    /\ returned = <<>>
    /\ saved_at = <<>>
    /\ collection = <<>>
    /\ use_advanced_memory \in BOOLEAN
    /\ ollama_available = TRUE
    /\ embed_available = TRUE
    /\ hash_seed = 0
    /\ context = NoContext
    /\ image_dir = {}
    /\ model_dir = {}
    /\ max_files \in PipelineCaps
    /\ files_made = 0
    /\ call = Idle

Next == PipelineSaveCreation \/ AdvancedSaveCreation \/ EnhancePrompt \/ Return

Spec == Init /\ [][Next]_vars

(***************************************************************************)
(* Pipeline.execute, a stage at a time.                                    *)
(***************************************************************************)
\* the reference_date values given to execute
ExecuteReferences == { <<>>, recent_token, Gibberish, UnknownId }

\* a run's two saves are a call of the Image-to-3D app apart, and runs
\* follow one another: every file the Pipeline writes is newer than those
\* its directory holds
PipelineTick(dir) == Newest(dir) + 1

\* the Text-to-Image stage (lines 202-233)
\*   ok       : an image came back, was valid and was saved
\*   raised   : stub.call or save_image raised
\*   no_image : the response was empty or had no "image"
\*   invalid  : validate_base64_image rejected the data
ImageOutcomes == {"ok", "raised", "no_image", "invalid"}

\* the Image-to-3D stage (lines 237-287)
\*   ok         : a model came back and was saved
\*   unprepared : prepare_image_for_3d_conversion returned nothing
\*   no_model   : the response was empty or had no "model"
\*   raised     : stub.call, b64decode or save_model raised
ModelOutcomes == {"ok", "unprepared", "no_model", "raised"}

\* enhance_completed counting the stage only when ollama.chat answered
enhance_completed_by_chat(chat_raised) == ~chat_raised

\* steps_completed["enhance"] = True follows enhance_prompt whatever it
\* returned (line 189)
enhance_completed(chat_raised) == TRUE

\* execute goes on to the next stage only after an image was saved
image_stage_continues(outcome) == outcome = "ok"

\* model_stage_continues with an except clause that logs and falls through
model_stage_falls_through(outcome) == outcome \in {"ok", "raised"}

\* execute goes on to step 4 only after a model was saved
model_stage_continues(outcome) == outcome = "ok"

\* the keys of the dict returned when the image stage ends the run
image_error_keys(outcome) ==
    IF outcome = "invalid" THEN {"error", "original_prompt", "enhanced_prompt"}
    ELSE {"error"}

\* model_error_keys whose except clause takes the branch of line 287
model_error_keys_bare(outcome) ==
    IF outcome = "raised"
    THEN {"error"}
    ELSE {"error", "original_prompt", "enhanced_prompt", "image_path"}

\* the keys of the dict returned when the model stage ends the run; the
\* image stage has completed by then
model_error_keys(outcome) ==
    IF outcome = "raised"
    THEN {"error", "original_prompt", "enhanced_prompt", "image_path",
          "partial_completion"}
    ELSE {"error", "original_prompt", "enhanced_prompt", "image_path"}

\* what ltm.save_creation can do when execute calls it: a fault of the
\* connection, or a parameter sqlite3 cannot bind: a prompt holding a lone
\* surrogate (json.loads of the ollama response lets "\ud83d" through) makes
\* cursor.execute raise UnicodeEncodeError before anything is written
ExecuteFaults == WriteFaults \cup {"unencodable"}

\* LongTermMemory.save_creation catches sqlite3.Error and nothing else (line
\* 56): UnicodeEncodeError is a ValueError and reaches execute
save_creation_raises(fault) == fault = "unencodable"

\* success = all([enhance, image, model]) (line 308)
Success(steps) == steps.enhance /\ steps.image /\ steps.model

\* the dict of lines 310-317
execute_result(steps) ==
    [keys |-> {"original_prompt", "enhanced_prompt", "image_path", "model_path",
               "success", "steps_completed"},
     success |-> Success(steps)]

\* a dict with an "error" key
error_result(keys) == [keys |-> keys, success |-> FALSE]

NoSteps == [enhance |-> FALSE, image |-> FALSE, model |-> FALSE, memory |-> FALSE]

\* step 1 (lines 176-189): enhance_prompt, then steps_completed["enhance"]
ExecuteEnhance ==
    /\ call = Idle
    /\ Len(creations) < MaxSaved
    /\ Len(collection) < MaxIndexed
    /\ files_made + 2 <= MaxFilesMade
    /\ \E user_prompt \in UserPrompts, reference_date \in ExecuteReferences :
         LET path == PathOf(reference_date, use_advanced_memory) IN
         \E dbOk \in (IF path \in {"recent", "date"} THEN BOOLEAN ELSE { TRUE }),
            chromaOk \in (IF path = "id" THEN BOOLEAN ELSE { TRUE }),
            chat \in ChatOutcomes :
           \E r \in enhance_prompt(user_prompt, reference_date, creations, collection,
                                   use_advanced_memory, ollama_available,
                                   Instant(0, 0), dbOk, chromaOk, chat) :
              /\ context' = add_context(context, "enhanced_prompt", <<r.ret>>)
              /\ call' = [op |-> "execute", pc |-> "image",
                          user_prompt |-> user_prompt,
                          reference_date |-> reference_date,
                          resolution |-> r.cause, grounded |-> r.creation # <<>>,
                          chat_raised |-> chat.raised,
                          enhanced_prompt |-> r.ret,
                          sent_prompt |-> <<>>,
                          image |-> "unreached", model |-> "unreached",
                          image_path |-> <<>>, model_path |-> <<>>,
                          ltm |-> "unreached", advanced |-> "unreached",
                          advanced_id |-> <<>>,
                          rows0 |-> Len(creations), indexed0 |-> Len(collection),
                          steps |-> [NoSteps EXCEPT !.enhance = enhance_completed(chat.raised)],
                          result |-> error_result({})]
    /\ UNCHANGED <<creations, uncommitted, returned, saved_at, collection,
                   use_advanced_memory, ollama_available,
                   embed_available, hash_seed,
                   image_dir, model_dir, max_files, files_made>>

\* step 2 (lines 200-233): the Text-to-Image app is called with the enhanced
\* prompt
ExecuteImage ==
    /\ call.op = "execute"
    /\ call.pc = "image"
    /\ \E outcome \in ImageOutcomes :
         IF image_stage_continues(outcome)
         THEN \E r \in save_file(image_dir, max_files, files_made, PipelineTick(image_dir)) :
                 /\ image_dir' = r.dir
                 /\ files_made' = files_made + 1
                 /\ context' = add_context(context, "image_path",
                                           <<image_path_of(files_made)>>)
                 /\ call' = [call EXCEPT !.pc = "model",
                                         !.sent_prompt = call.enhanced_prompt,
                                         !.image = outcome,
                                         !.image_path = image_path_of(files_made),
                                         !.steps.image = TRUE]
         ELSE /\ call' = [call EXCEPT !.pc = "done",
                                      !.sent_prompt = call.enhanced_prompt,
                                      !.image = outcome,
                                      !.result = error_result(image_error_keys(outcome))]
              /\ UNCHANGED <<context, image_dir, files_made>>
    /\ UNCHANGED <<creations, uncommitted, returned, saved_at, collection,
                   use_advanced_memory, ollama_available,
                   embed_available, hash_seed, model_dir, max_files>>

\* step 3 (lines 235-287): the Image-to-3D app is called with the image
ExecuteModel ==
    /\ call.op = "execute"
    /\ call.pc = "model"
    /\ \E outcome \in ModelOutcomes :
         IF model_stage_continues(outcome)
         THEN \E r \in save_file(model_dir, max_files, files_made, PipelineTick(model_dir)) :
                 /\ model_dir' = r.dir
                 /\ files_made' = files_made + 1
                 /\ context' = add_context(context, "model_path",
                                           <<model_path_of(files_made)>>)
                 /\ call' = [call EXCEPT !.pc = "memory",
                                         !.model = outcome,
                                         !.model_path = model_path_of(files_made),
                                         !.steps.model = (outcome = "ok")]
         ELSE /\ call' = [call EXCEPT !.pc = "done",
                                      !.model = outcome,
                                      !.result = error_result(model_error_keys(outcome))]
              /\ UNCHANGED <<context, model_dir, files_made>>
    /\ UNCHANGED <<creations, uncommitted, returned, saved_at, collection,
                   use_advanced_memory, ollama_available,
                   embed_available, hash_seed, image_dir, max_files>>

\* the tuple execute hands to both memories (lines 291 and 297)
CreationOf(c) ==
    [original_prompt |-> c.user_prompt, enhanced_prompt |-> c.enhanced_prompt,
     image_path |-> c.image_path, model_path |-> c.model_path]

\* step 4, first half (lines 289-292): ltm.save_creation, then
\* steps_completed["memory"]; an exception would skip to line 303
ExecuteSave ==
    /\ call.op = "execute"
    /\ call.pc = "memory"
    /\ \E now \in Times, fault \in ExecuteFaults :
          /\ fault = "commit" => uncommitted < MaxPending
          /\ IF save_creation_raises(fault)
             THEN UNCHANGED <<creations, uncommitted, saved_at>>
             ELSE /\ creations' = save_creation(creations, uncommitted, CreationOf(call), now, fault)
                  /\ uncommitted' = pending_after(uncommitted, fault)
                  /\ saved_at' = stamps_after(saved_at, uncommitted, now, fault)
          /\ call' = IF save_creation_raises(fault)
                     THEN [call EXCEPT !.pc = "done", !.ltm = fault,
                                       !.result = execute_result(call.steps)]
                     ELSE LET steps == [call.steps EXCEPT !.memory = TRUE] IN
                          IF use_advanced_memory
                          THEN [call EXCEPT !.pc = "advanced", !.ltm = fault,
                                            !.steps = steps]
                          ELSE [call EXCEPT !.pc = "done", !.ltm = fault,
                                            !.steps = steps,
                                            !.result = execute_result(steps)]
    /\ UNCHANGED <<returned, collection, use_advanced_memory, ollama_available,
                   embed_available, hash_seed,
                   context, image_dir, model_dir, max_files, files_made>>

\* step 4, second half (lines 295-317): advanced_mem.save_creation inside its
\* own try, then the result
ExecuteAdvancedSave ==
    /\ call.op = "execute"
    /\ call.pc = "advanced"
    /\ \E chromaOk \in BOOLEAN :
          /\ collection' = IF chromaOk
                           THEN advanced_save_creation(collection, CreationOf(call))
                           ELSE collection
          /\ call' = [call EXCEPT !.pc = "done",
                                  !.advanced = IF chromaOk THEN "ok" ELSE "raised",
                                  !.advanced_id = IF chromaOk
                                                  THEN UuidPool[Len(collection) + 1]
                                                  ELSE <<>>,
                                  !.result = execute_result(call.steps)]
    /\ UNCHANGED <<creations, uncommitted, returned, saved_at,
                   use_advanced_memory, ollama_available,
                   embed_available, hash_seed,
                   context, image_dir, model_dir, max_files, files_made>>

ExecuteNext ==
    \/ ExecuteEnhance
    \/ ExecuteImage
    \/ ExecuteModel
    \/ ExecuteSave
    \/ ExecuteAdvancedSave
    \/ Return

\* a Pipeline whose execute is called again and again
ExecuteSpec == Init /\ [][ExecuteNext]_vars

\* a run that has begun goes on: the thread in execute runs its next
\* statement, and every collaborator answers or raises
ExecuteFairness ==
    /\ WF_vars(ExecuteImage)
    /\ WF_vars(ExecuteModel)
    /\ WF_vars(ExecuteSave)
    /\ WF_vars(ExecuteAdvancedSave)

ExecuteLiveSpec == ExecuteSpec /\ ExecuteFairness

(***************************************************************************)
(* AdvancedMemory.generate_embedding                                       *)
(***************************************************************************)
\* the characters str.split() takes as separators
IsSpace(c) == c \in {" ", "\t", "\n"}

RECURSIVE SplitFrom(_, _, _)
SplitFrom(s, word, words) ==
    LET done == IF word = <<>> THEN words ELSE Append(words, word)
    IN  IF s = <<>> THEN done
        ELSE IF IsSpace(Head(s)) THEN SplitFrom(Tail(s), <<>>, done)
        ELSE SplitFrom(Tail(s), Append(word, Head(s)), words)

\* text.split(): the maximal runs of characters that are not whitespace
split(text) == SplitFrom(text, <<>>, <<>>)

\* the code point of a character of the texts in use
CodePoint(c) ==
    IF \E k \in 1..Len(Lowercase) : Lowercase[k] = c
    THEN 96 + (CHOOSE k \in 1..Len(Lowercase) : Lowercase[k] = c)
    ELSE Ord(c)

\* hash(word) is a signed integer that the interpreter computes from the
\* characters of word and a seed it draws when it starts (PYTHONHASHSEED).
\* The keyed hash itself is stood for by a multiplicative hash modulo
\* HashModulus: a function of the seed and the word, of either sign.
HashMultiplier == 31
HashModulus == 65536

RECURSIVE HashFrom(_, _)
HashFrom(h, word) ==
    IF word = <<>> THEN h
    ELSE HashFrom((h * HashMultiplier + CodePoint(Head(word))) % HashModulus, Tail(word))

hash(word, seed) ==
    LET u == HashFrom((seed * 40503 + 1) % HashModulus, word)
    IN  IF u >= HashModulus \div 2 THEN u - HashModulus ELSE u

\* text.split()[:20]
MaxTokens == 20

\* hash(word) % 1000 / 1000: a component is kept as its count of
\* thousandths, so its value is Component / HashRange
HashRange == 1000

\* [hash(word) % 1000 / 1000 for word in text.split()[:20]]
fallback_embedding(text, seed) ==
    LET words == split(text)
        n     == IF Len(words) < MaxTokens THEN Len(words) ELSE MaxTokens
    IN  [i \in 1..n |-> hash(words[i], seed) % HashRange]

\* advanced_memory.py imports ollama inside __init__ only (line 15), which
\* binds a local name of __init__: in generate_embedding the name ollama is
\* not bound and evaluating it raises NameError
ollama_is_bound == FALSE

\* what ollama.embeddings(model, prompt) would do if called: it raises, or
\* answers with an embedding (in thousandths)
ExternalEmbedding == <<125, 250, 500, 750>>

EmbeddingOutcomes ==
    { [raised |-> TRUE, embedding |-> <<>>],
      [raised |-> FALSE, embedding |-> ExternalEmbedding] }

\* generate_embedding(text): the vector returned and where it came from
generate_embedding(text, available, seed, capability) ==
    IF ~available
    THEN [ret |-> fallback_embedding(text, seed), via |-> "fallback"]
    ELSE IF ~ollama_is_bound \/ capability.raised
    THEN [ret |-> fallback_embedding(text, seed), via |-> "fallback"]
    ELSE [ret |-> capability.embedding, via |-> "ollama"]

\* words joined by single blanks
RECURSIVE Join(_)
Join(words) ==
    IF words = <<>> THEN <<>>
    ELSE IF Len(words) = 1 THEN words[1]
    ELSE words[1] \o <<" ">> \o Join(Tail(words))

\* the texts embedded: none, one and three words, words between runs of
\* whitespace, and one word more than MaxTokens
Texts ==
    { <<>>, cat, Join(<<<<"a">>, <<"c", "u", "t", "e">>, cat>>),
      <<" ", " ">> \o cat \o <<" ", "\t">> \o dog \o <<"\n">>,
      Join([i \in 1..(MaxTokens + 1) |-> <<Lowercase[i]>>]) }

Seeds == 0..MaxSeed

GenerateEmbedding ==
    /\ call = Idle
    /\ \E text \in Texts, capability \in EmbeddingOutcomes :
         LET r == generate_embedding(text, embed_available, hash_seed, capability)
         IN  call' = [op |-> "generate_embedding", text |-> text,
                      capability |-> capability, via |-> r.via, ret |-> r.ret]
    /\ UNCHANGED <<creations, uncommitted, returned, saved_at, collection,
                   use_advanced_memory, ollama_available,
                   embed_available, hash_seed,
                   context, image_dir, model_dir, max_files, files_made>>

\* the caller keeps the vector it was given (save_creation stores it in the
\* persistent collection)
KeepEmbedding ==
    /\ call.op = "generate_embedding"
    /\ returned = <<>>
    /\ returned' = <<[text |-> call.text, via |-> call.via, vector |-> call.ret]>>
    /\ call' = Idle
    /\ UNCHANGED <<creations, uncommitted, saved_at, collection,
                   use_advanced_memory, ollama_available,
                   embed_available, hash_seed,
                   context, image_dir, model_dir, max_files, files_made>>

\* the program is started again: a new interpreter, a new AdvancedMemory
Restart ==
    /\ call = Idle
    /\ hash_seed' \in Seeds
    /\ embed_available' \in BOOLEAN
    /\ UNCHANGED <<creations, uncommitted, returned, saved_at, collection,
                   use_advanced_memory, ollama_available, context, image_dir,
                   model_dir, max_files, files_made, call>>

\* an AdvancedMemory as __init__ leaves it, in some interpreter
EmbedInit ==
    /\ creations = <<>>
    /\ uncommitted = 0
    /\ returned = <<>>
    /\ saved_at = <<>>
    /\ collection = <<>>
    /\ use_advanced_memory = TRUE
    /\ ollama_available = TRUE
    /\ embed_available \in BOOLEAN
    /\ hash_seed \in Seeds
    /\ context = NoContext
    /\ image_dir = {}
    /\ model_dir = {}
    /\ max_files \in PipelineCaps
    /\ files_made = 0
    /\ call = Idle

EmbedNext == GenerateEmbedding \/ KeepEmbedding \/ Restart \/ Return

EmbedSpec == EmbedInit /\ [][EmbedNext]_vars

(***************************************************************************)
(* AdvancedMemory.find_similar_creations                                   *)
(***************************************************************************)
\* the dimension of the vector stored with a record: save_creation embeds
\* the original prompt, and generate_embedding can only give the fallback
Dimension(e) == Len(fallback_embedding(e.metadata.original_prompt, 0))

\* the records collection.query can give for n_results on a collection:
\* the nearest ones, nearest first; the distances are Chroma's, so every
\* arrangement of that many records is possible
Nearest(coll, n_results) ==
    LET k == IF n_results < Len(coll) THEN n_results ELSE Len(coll)
    IN  { [i \in 1..k |-> coll[f[i]]] :
            f \in { g \in [1..k -> 1..Len(coll)] :
                      \A i, j \in 1..k : i # j => g[i] # g[j] } }

\* collection.query(query_embeddings=[embedding], n_results): Chroma checks
\* the vector before it looks at the collection.  validates: the installed
\* chromadb refuses a vector with no values (ValueError); the dimension of a
\* collection is that of its first record and a vector of another dimension
\* is refused as well
query_raises(coll, embedding, validates) ==
    \/ embedding = <<>> /\ validates
    \/ coll # <<>> /\ Len(embedding) # Dimension(coll[1])

\* the limits find_similar_creations is called with: 1 and the default
Limits == {1, 5}

\* find_similar_creations(prompt, limit): what it can return, None of its
\* statements catching what collection.query raises
find_similar_creations(coll, prompt, limit, available, seed, validates) ==
    LET embedding == generate_embedding(prompt, available, seed,
                                        [raised |-> TRUE, embedding |-> <<>>]).ret
    IN  IF query_raises(coll, embedding, validates)
        THEN { [raised |-> TRUE, embedding |-> embedding, ret |-> <<>>] }
        ELSE { [raised |-> FALSE, embedding |-> embedding,
                ret |-> [i \in 1..Len(hits) |->
                           [id |-> hits[i].id, metadata |-> hits[i].metadata]]] :
                 hits \in Nearest(coll, limit) }

FindSimilarCreations ==
    /\ call = Idle
    /\ use_advanced_memory
    /\ \E prompt \in Texts, limit \in Limits, validates \in BOOLEAN :
         \E r \in find_similar_creations(collection, prompt, limit,
                                         embed_available, hash_seed, validates) :
            call' = [op |-> "find_similar_creations", prompt |-> prompt,
                     limit |-> limit, embedding |-> r.embedding,
                     raised |-> r.raised, ret |-> r.ret]
    /\ UNCHANGED <<creations, uncommitted, returned, saved_at, collection,
                   use_advanced_memory, ollama_available,
                   embed_available, hash_seed,
                   context, image_dir, model_dir, max_files, files_made>>

IndexNext == AdvancedSaveCreation \/ FindSimilarCreations \/ Restart \/ Return

\* an AdvancedMemory that is written to and searched
IndexSpec == EmbedInit /\ [][IndexNext]_vars

(***************************************************************************)
(* Properties of LongTermMemory, checked under StoreSpec.                  *)
(***************************************************************************)
\* the timestamps of the rows strictly increase in insertion order
StrictlyIncreasing(ts) ==
    \A i, j \in 1..Len(ts) : i < j => Micros(ts[i]) < Micros(ts[j])

\* the instant at which a fetched row was saved
CreatedAt(row) == saved_at[Col(row, 0)]

\* |a - b| in microseconds
MicrosApart(a, b) == ABS(Micros(a) - Micros(b))

\* an instant in whole milliseconds, rounded to the nearest
Millis(t) == (Micros(t) + (USecPerMs \div 2)) \div USecPerMs

\* |a - b| in whole milliseconds
MillisApart(a, b) == ABS(Millis(a) - Millis(b))

\* the four string fields of a fetched row are those of the input tuple
HoldsInput(row, in) ==
    /\ Col(row, 2) = in.original_prompt
    /\ Col(row, 3) = in.enhanced_prompt
    /\ Col(row, 4) = in.image_path
    /\ Col(row, 5) = in.model_path

\* C1: a save_creation that the store accepts makes every listing that
\* get_all_creations can then return one row longer than before, and the
\* row with the new id carries the four input strings unchanged.
C1_RoundTrip ==
    [][(call'.op = "save_creation" /\ call'.cause = "ok") =>
         \A after \in get_all_creations(creations', TRUE) :
           /\ \A before \in get_all_creations(creations, TRUE) :
                 Len(after.ret) = Len(before.ret) + 1
           /\ \E i \in 1..Len(after.ret) :
                 /\ Col(after.ret[i], 0) = Len(creations) + 1
                 /\ HoldsInput(after.ret[i], call'.in)]_vars

\* C1 witness: a save was accepted into a table that already held rows
C1_Witness ==
    /\ call.op = "save_creation"
    /\ call.cause = "ok"
    /\ Len(creations) >= 2

\* C2: when the rows were saved at strictly increasing instants,
\* get_all_creations returns them newest first: in the reverse of insertion
\* order, with strictly decreasing created_at.
C2_RecencyOrdering ==
    (call.op = "get_all_creations" /\ call.cause = "ok"
       /\ StrictlyIncreasing(saved_at)) =>
      /\ Len(call.ret) = Len(creations)
      /\ \A i \in 1..Len(call.ret) : call.ret[i] = creations[Len(creations) + 1 - i]
      /\ \A i, j \in 1..Len(call.ret) :
            i < j => Micros(CreatedAt(call.ret[i])) > Micros(CreatedAt(call.ret[j]))

\* C2 witness: three rows saved at t1 < t2 < t3 have been listed
C2_Witness ==
    /\ call.op = "get_all_creations"
    /\ call.cause = "ok"
    /\ Len(creations) = 3
    /\ StrictlyIncreasing(saved_at)
    /\ saved_at[1] = Instant(0, 0)
    /\ saved_at[2] = Instant(0, SubMs)

\* a get_creation_by_date call whose date_str was parsed and whose query ran
ParsedQuery ==
    /\ call.op = "get_creation_by_date"
    /\ call.cause = "ok"
    /\ ~ReadsClock(call.date_str)

C5_TieBreak ==
    (ParsedQuery /\ call.ret # <<>>) =>
      \A k \in 1..Len(creations) :
        MicrosApart(saved_at[k], call.target[1])
            = MicrosApart(CreatedAt(call.ret[1]), call.target[1])
          => Micros(saved_at[k]) <= Micros(CreatedAt(call.ret[1]))

\* what get_creation_by_date returns when the date parses and no creation
\* matches: the result on an empty store
NoMatch == { r.ret : r \in get_creation_by_date(<<>>, isoformat(Instant(0, 0)),
                                                 Instant(0, 0), TRUE) }

\* C6: a date_str that cannot be parsed gives the caller something other
\* than the "no creation matches" result.
C6_ParseFailureReported ==
    (call.op = "get_creation_by_date" /\ call.cause = "ParseFailure") =>
      call.ret \notin NoMatch

\* what get_all_creations returns when no creations exist
NoCreations == { r.ret : r \in get_all_creations(<<>>, TRUE) }

\* C7: a query that failed gives the caller something other than the empty
\* result of a store without creations or matches.
C7_UnavailabilityReported ==
    (call.op \in {"get_all_creations", "get_creation_by_date"}
       /\ call.cause = "StorageFailure") =>
      call.ret \notin (NoCreations \cup NoMatch)

\* C8: save_creation returns normally only when the row was inserted and
\* committed; a failed insert or commit is reported to the caller.
C8_DurableSave ==
    (call.op = "save_creation" /\ call.ret = "None") => call.cause = "ok"

(***************************************************************************)
(* Properties of Pipeline.enhance_prompt, checked under Spec.              *)
(***************************************************************************)
\* an enhance_prompt call with the token 'recent' in some letter case, on a
\* store that holds creations
RecentCall ==
    /\ call.op = "enhance_prompt"
    /\ call.reference_date # <<>>
    /\ Lowered[call.reference_date] = recent_token
    /\ Len(creations) >= 1

LongTokenWithoutIndex ==
    /\ call.op = "enhance_prompt"
    /\ ~use_advanced_memory
    /\ Len(call.reference_date) > 30

\* C9 as claimed: without AdvancedMemory a reference token of more than 30
\* characters yields no grounding, whatever the store holds.
C9_NoGrounding ==
    LongTokenWithoutIndex => call.creation = <<>>

\* C9 amended: without AdvancedMemory a reference token of more than 30
\* characters is resolved as a date string and never as an identifier; the
\* call returns a prompt; there is no grounding when the token does not
\* parse, the query fails or the store is empty, and otherwise the grounding
\* is one stored creation.
C9_AbsentIndex ==
    LongTokenWithoutIndex =>
      /\ call.path = "date"
      /\ call.ret \in { call.user_prompt, husky }
      /\ (call.cause # "ok" \/ creations = <<>>) => call.creation = <<>>
      /\ (call.cause = "ok" /\ creations # <<>>) =>
            /\ Len(call.creation) = 1
            /\ \E k \in 1..Len(creations) : call.creation[1] = creations[k]

\* C9 witness: a long text holding a date was resolved to a stored creation
C9_Witness ==
    /\ LongTokenWithoutIndex
    /\ call.reference_date = LongDate(Instant(1, 0))
    /\ Len(creations) = 2
    /\ call.creation # <<>>

\* the original_prompt of the creation an enhance_prompt call has found
FoundOriginal ==
    IF call.path = "id" THEN call.creation[1].metadata.original_prompt
    ELSE Col(call.creation[1], 2)

\* the enhanced_prompt of the creation an enhance_prompt call has found
FoundEnhanced ==
    IF call.path = "id" THEN call.creation[1].metadata.enhanced_prompt
    ELSE Col(call.creation[1], 3)

\* C10: whenever enhance_prompt finds a prior creation, by the recent, the
\* id or the date path, the reference text it appends to the user prompt
\* contains that creation's original_prompt and its enhanced_prompt.
C10_GroundingContent ==
    (call.op = "enhance_prompt" /\ call.creation # <<>>) =>
      /\ Contains(call.reference_text, FoundOriginal)
      /\ Contains(call.reference_text, FoundEnhanced)
      /\ Contains(call.full_prompt, call.reference_text)

(***************************************************************************)
(* Properties of the creations table over time.                            *)
(***************************************************************************)
\* C15: a row that a LongTermMemory query has once returned is still in the
\* table, with the same id, created_at and four string fields, after any
\* further save_creation, get_creation_by_date and get_all_creations calls.
C15_AppendOnly ==
    returned # <<>> =>
      \E k \in 1..Len(creations) : creations[k] = returned[1]

\* the rows of a listing that share a timestamp come in ascending id order
TiesAscending(rows) ==
    \A i, j \in 1..Len(rows) :
      (i < j /\ Col(rows[i], 1) = Col(rows[j], 1)) => Col(rows[i], 0) < Col(rows[j], 0)

\* the rows of a listing that share a timestamp come in descending id order
TiesDescending(rows) ==
    \A i, j \in 1..Len(rows) :
      (i < j /\ Col(rows[i], 1) = Col(rows[j], 1)) => Col(rows[i], 0) > Col(rows[j], 0)

C18_FallbackDeterminism ==
    (call.op = "generate_embedding" /\ call.via = "fallback"
       /\ returned # <<>> /\ returned[1].via = "fallback"
       /\ returned[1].text = call.text) =>
      call.ret = returned[1].vector

\* C19: the fallback embedding has one component for each of the first
\* MaxTokens whitespace-separated tokens of the text, every component is in
\* [0, 1), and the vector is as long for this text as for every other text.
C19_FallbackShape ==
    (call.op = "generate_embedding" /\ call.via = "fallback") =>
      /\ \A i \in 1..Len(call.ret) : 0 <= call.ret[i] /\ call.ret[i] < HashRange
      /\ Len(call.ret) <= MaxTokens
      /\ \A t \in Texts : Len(call.ret) = Len(fallback_embedding(t, hash_seed))

\* C20: when ollama was found at construction and its embeddings call would
\* succeed, generate_embedding returns the vector of that call; it falls
\* back to hashing only when ollama is absent or the call raises.
C20_ExternalEmbedding ==
    call.op = "generate_embedding" =>
      IF embed_available /\ ~call.capability.raised
      THEN call.via = "ollama" /\ call.ret = call.capability.embedding
      ELSE call.via = "fallback"

(***************************************************************************)
(* Properties of Pipeline.execute, checked under ExecuteSpec.              *)
(***************************************************************************)
\* a run of execute has reached its return statement
Done == call.op = "execute" /\ call.pc = "done"

\* a finished run whose image and model stages both delivered
StagesSucceeded == Done /\ call.image = "ok" /\ call.model = "ok"

\* the last row of the table is the creation of the run in progress
RowOfRun ==
    /\ creations # <<>>
    /\ HoldsInput(creations[Len(creations)], CreationOf(call))

\* the last record of the collection is the creation of the run in progress
RecordOfRun ==
    /\ collection # <<>>
    /\ collection[Len(collection)].id = call.advanced_id
    /\ collection[Len(collection)].metadata = CreationOf(call)

\* C11: the memories change only in step 4 of a run of execute whose
\* enhancement, image and model stages have all completed, a run adds at
\* most one row and one record, and a run that returns an error from the
\* image or model stage has added nothing to either memory.
C11_CreationLifecycle ==
    [][/\ (creations' # creations \/ collection' # collection) =>
            /\ call.op = "execute"
            /\ call.pc \in {"memory", "advanced"}
            /\ call.steps.enhance /\ call.steps.image /\ call.steps.model
            /\ call.image = "ok" /\ call.model = "ok"
            /\ Len(creations') <= call.rows0 + 1
            /\ Len(collection') <= call.indexed0 + 1
       /\ (call'.op = "execute" /\ call'.pc = "done"
             /\ (call'.image # "ok" \/ call'.model # "ok")) =>
            /\ "error" \in call'.result.keys
            /\ Len(creations') = call'.rows0
            /\ Len(collection') = call'.indexed0]_vars

\* C11 witness: the second run of a Pipeline has added its row and its record
C11_Witness ==
    /\ StagesSucceeded
    /\ call.ltm = "none"
    /\ call.rows0 = 1
    /\ Len(creations) = 2
    /\ RowOfRun
    /\ call.advanced = "ok"

\* C12: a run whose image and model stages delivered returns success = true
\* with image_path and model_path and without an "error" key, whether or not
\* reference resolution or either memory write failed.
C12_MemoryNonFatal ==
    StagesSucceeded =>
      /\ call.result.success
      /\ {"image_path", "model_path", "success"} \subseteq call.result.keys
      /\ "error" \notin call.result.keys
      /\ \E made \in 0..(MaxFilesMade - 1) : call.image_path = image_path_of(made)
      /\ \E made \in 0..(MaxFilesMade - 1) : call.model_path = model_path_of(made)

\* C12 witness: the run succeeded although the reference did not parse, the
\* INSERT failed, ollama.chat raised and the Chroma write raised
C12_Witness ==
    /\ StagesSucceeded
    /\ call.resolution = "ParseFailure"
    /\ call.chat_raised
    /\ call.ltm = "insert"
    /\ call.advanced = "raised"
    /\ call.result.success

\* C13: in a run whose stages delivered, the LongTermMemory write is made
\* whether or not AdvancedMemory exists or fails, and the AdvancedMemory
\* write is made whether or not the LongTermMemory write failed.
C13_StoreIndependence ==
    StagesSucceeded =>
      /\ call.ltm \in ExecuteFaults
      /\ call.ltm = "none" => RowOfRun
      /\ use_advanced_memory => call.advanced \in {"ok", "raised"}
      /\ call.advanced = "ok" => RecordOfRun

\* str(id) of a row id
DecimalText(n) == IF n < 10 THEN Pad(n, 1) ELSE Pad(n, 2)

\* C14: a creation that a run has written to both memories has, as its key
\* in the Chroma collection, the id of its row in the creations table.
C14_SharedIdentifier ==
    (StagesSucceeded /\ call.ltm = "none" /\ call.advanced = "ok") =>
      collection[Len(collection)].id = DecimalText(Col(creations[Len(creations)], 0))

\* C17: when ollama is unavailable or ollama.chat raises, enhance_prompt
\* returns the user's prompt as it was given, without reference text, and
\* execute goes on to the image stage with that prompt.
C17_EnhancementFallback ==
    call.op = "execute" =>
      /\ call.chat_raised =>
            /\ call.enhanced_prompt = call.user_prompt
            /\ call.steps.enhance
            /\ call.pc # "image" => call.sent_prompt = call.user_prompt
      /\ \A dbOk, chromaOk \in BOOLEAN, chat \in ChatOutcomes :
           \A r \in enhance_prompt(call.user_prompt, call.reference_date, creations,
                                   collection, use_advanced_memory, FALSE,
                                   Instant(0, 0), dbOk, chromaOk, chat) :
              r.ret = call.user_prompt

\* C17 witness: ollama.chat raised after a prior creation had been found,
\* and the image stage was given the user's prompt
C17_Witness ==
    /\ call.op = "execute"
    /\ call.chat_raised
    /\ call.grounded
    /\ call.pc = "model"
    /\ call.sent_prompt = call.user_prompt

(***************************************************************************)
(* Properties of AdvancedMemory.find_similar_creations, checked under      *)
(* IndexSpec.                                                              *)
(***************************************************************************)
\* C21: find_similar_creations on a collection without records raises
\* nothing and returns the empty list, whatever the prompt and the limit.
C21_EmptyIndexQuery ==
    (call.op = "find_similar_creations" /\ collection = <<>>) =>
      /\ ~call.raised
      /\ call.ret = <<>>

(***************************************************************************)
(* Properties of ShortTermMemory, checked under StmSpec.                   *)
(***************************************************************************)
\* C22: add_context(k, v) makes get_context(k) give v and changes the
\* answer for no other key; get_context changes nothing and gives None for
\* a key the context does not hold; clear_context leaves no entry, and
\* clearing again changes nothing.
C22_SessionContext ==
    [][/\ call'.op = "add_context" =>
            /\ get_context(context', call'.key) = call'.value
            /\ \A k \in ContextKeys \ {call'.key} :
                  /\ k \in DOMAIN context' <=> k \in DOMAIN context
                  /\ get_context(context', k) = get_context(context, k)
       /\ call'.op = "get_context" =>
            /\ context' = context
            /\ call'.key \in DOMAIN context => call'.ret = context[call'.key]
            /\ call'.key \notin DOMAIN context => call'.ret = None
       /\ call'.op = "clear_context" =>
            /\ DOMAIN context' = {}
            /\ \A k \in ContextKeys : get_context(context', k) = None
            /\ clear_context(context') = context']_vars

\* C22 witness: a key set twice gives a value while another key is held too
C22_Witness ==
    /\ call.op = "get_context"
    /\ call.ret = <<tabby>>
    /\ Cardinality(DOMAIN context) >= 2

(***************************************************************************)
(* Properties of concurrent requests, checked under RequestsSpec.          *)
(***************************************************************************)
\* C23: a read that runs while another request saves returns what it would
\* return on the table before the save or on the table after it.
C23_ConcurrentReads ==
    (call.op = "requests" /\ call.rpc = "done") =>
      \/ call.ret \in read_of(call.read, call.before, call.now)
      \/ call.ret \in read_of(call.read,
                              InsertRow(call.before, isoformat(call.now), call.in),
                              call.now)

(***************************************************************************)
(* Properties of FileManager, checked under FilesSpec.                     *)
(***************************************************************************)
\* the directory a call of save_image or save_model wrote to
Written == IF call.op = "save_image" THEN image_dir ELSE model_dir

\* the file a call of save_image or save_model wrote
NewFile == [name |-> call.name, mtime |-> call.mtime]

\* C24: after a save_image or save_model without a deletion error the
\* directory holds at most max_files files, every file removed is at most
\* as new as every file kept, the file just written is there when
\* max_files >= 1, and no earlier file has its name.
C24_RetentionCap ==
    (call.op \in {"save_image", "save_model"} /\ ~call.deletion_error) =>
      /\ Cardinality(Written) <= max_files
      /\ \A f \in (call.before \cup {NewFile}) \ Written, g \in Written :
            f.mtime <= g.mtime
      /\ max_files >= 1 => NewFile \in Written
      /\ \A f \in call.before : f.name # call.name

(***************************************************************************)
(* Properties of reference resolution, checked under Spec.                 *)
(***************************************************************************)
\* an enhance_prompt call with a reference token that is not the sentinel
\* "recent" (which is matched in any letter case)
OtherTokenCall ==
    /\ call.op = "enhance_prompt"
    /\ call.reference_date # <<>>
    /\ Lowered[call.reference_date] # recent_token

\* C25: a token that is not "recent" takes the identifier path exactly when
\* it is longer than 30 characters and AdvancedMemory is there; on that path
\* the grounding is the record get_creation_by_id finds under the token and
\* there is none when no record has that id, whatever the table holds;
\* every other token is resolved by get_creation_by_date alone.
C25_ResolverPriority ==
    OtherTokenCall =>
      /\ call.path = "id" <=>
            (Len(call.reference_date) > 30 /\ use_advanced_memory)
      /\ call.path = "id" =>
            /\ call.creation # <<>> =>
                  \E k \in 1..Len(collection) :
                     /\ collection[k].id = call.reference_date
                     /\ call.creation[1].id = collection[k].id
                     /\ call.creation[1].metadata = collection[k].metadata
            /\ (\A k \in 1..Len(collection) : collection[k].id # call.reference_date)
                  => call.creation = <<>> /\ call.reference_text = <<>>
      /\ call.path # "id" =>
            /\ call.path = "date"
            /\ \E now \in Times, dbOk \in BOOLEAN :
                 \E r \in get_creation_by_date(creations, call.reference_date, now, dbOk) :
                    /\ call.cause = r.cause
                    /\ call.creation = IF r.ret # <<>> THEN <<r.ret[1]>> ELSE <<>>

\* C25 witness: with AdvancedMemory there, a token of exactly 30 characters
\* was resolved as a date and one of 31 as an identifier no record has,
\* which found nothing in a table that holds creations
C25_Witness ==
    /\ OtherTokenCall
    /\ use_advanced_memory
    /\ creations # <<>>
    /\ \/ /\ call.reference_date = Date30
          /\ call.path = "date"
          /\ call.creation # <<>>
       \/ /\ call.reference_date = Date31
          /\ call.path = "id"
          /\ call.creation = <<>>

(***************************************************************************)
(* The token "now" of get_creation_by_date, checked under StoreSpec.       *)
(***************************************************************************)
\* a get_creation_by_date("now"), in some letter case, whose query succeeded
\* on a table whose rows were all created at or before the instant read
NowQuery ==
    /\ call.op = "get_creation_by_date"
    /\ ReadsClock(call.date_str)
    /\ call.cause = "ok"
    /\ creations # <<>>
    /\ \A k \in 1..Len(creations) : Micros(saved_at[k]) <= Micros(call.target[1])

\* the rows were created at instants that all differ
DistinctInstants == \A j, k \in 1..Len(saved_at) : j # k => saved_at[j] # saved_at[k]

\* C26: "now" in any letter case never reaches the parser, and when no row
\* is later than the current instant the row returned has the greatest
\* created_at: the row get_all_creations lists first when the timestamps
\* are distinct.
C26_NowToken ==
    /\ (call.op = "get_creation_by_date" /\ ReadsClock(call.date_str)) =>
          call.cause # "ParseFailure"
    /\ NowQuery =>
          /\ Len(call.ret) = 1
          /\ \A k \in 1..Len(creations) :
                Micros(saved_at[k]) <= Micros(CreatedAt(call.ret[1]))
          /\ DistinctInstants =>
                \A r \in get_all_creations(creations, TRUE) : r.ret[1] = call.ret[1]

(***************************************************************************)
(* Properties of the runs of one Pipeline, checked under ExecuteSpec.      *)
(***************************************************************************)
\* C27: steps_completed["memory"] in the result of a run is true only if the
\* row of that run is in the table and committed, and it is false when the
\* write failed.
C27_MemoryFlagTruthful ==
    Done =>
      /\ call.steps.memory =>
            /\ call.ltm = "none"
            /\ RowOfRun
            /\ uncommitted = 0
      /\ call.ltm \in ExecuteFaults \ {"none"} => ~call.steps.memory

\* the file names of a directory
Names(dir) == { f.name : f \in dir }

\* the paths of the files in the two directories
ExistingPaths ==
    { image_path_of(n - 1) : n \in Names(image_dir) }
      \cup { model_path_of(n - 1) : n \in Names(model_dir) }

\* C28: between runs, the image_path and the model_path of every row of the
\* table name files that are in the directories.
C28_NoDanglingPaths ==
    call = Idle =>
      \A k \in 1..Len(creations) :
         /\ Col(creations[k], 4) \in ExistingPaths
         /\ Col(creations[k], 5) \in ExistingPaths

\* C30: when a run ends, every key of the ShortTermMemory holds a value the
\* run itself produced.
C30_ContextOfThisRun ==
    Done =>
      /\ "enhanced_prompt" \in DOMAIN context =>
            context["enhanced_prompt"] = <<call.enhanced_prompt>>
      /\ "image_path" \in DOMAIN context =>
            call.image = "ok" /\ context["image_path"] = <<call.image_path>>
      /\ "model_path" \in DOMAIN context =>
            call.model = "ok" /\ context["model_path"] = <<call.model_path>>

(***************************************************************************)
(* Termination of Pipeline.execute, checked under ExecuteLiveSpec.         *)
(***************************************************************************)
\* what C29 says of the dict a run returns
ResultIsSound ==
    /\ "error" \notin call.result.keys =>
          /\ call.result.success
          /\ call.steps.enhance /\ call.steps.image /\ call.steps.model
          /\ call.image = "ok" /\ call.model = "ok"
    /\ (call.image = "ok" /\ call.model # "ok") =>
          /\ "error" \in call.result.keys
          /\ "image_path" \in call.result.keys
          /\ image_path_of(files_made - 1) = call.image_path
          /\ files_made \in Names(image_dir) \/ max_files = 0

\* C29: whatever the collaborators do, a run of execute that has begun
\* reaches its return; a result without "error" has success true and the
\* enhance, image and model steps completed, and a result returned after
\* the image was saved and the model stage failed carries the image_path.
C29_AlwaysReturns ==
    /\ [](Done => ResultIsSound)
    /\ (call.op = "execute") ~> Done

\* C29 witness: the image was saved, the Image-to-3D call raised, and the
\* run returned the partial result
C29_Witness ==
    /\ Done
    /\ call.chat_raised
    /\ call.image = "ok"
    /\ call.model = "raised"
    /\ "partial_completion" \in call.result.keys

====
